---- MODULE Spec2Model ----
(***************************************************************************)
(* Code performance visualizer: the execution orchestrator                 *)
(* (codeExecutionService), its two language handlers (javascriptHandler,   *)
(* pythonHandler), the socket and REST entry points, and the runtime       *)
(* metrics collector that the instrumented programs carry.                 *)
(***************************************************************************)
EXTENDS Integers, Sequences, FiniteSets, TLC

\* ---------------------------------------------------------------- bounds
MaxCalls == 2      \* executeCode requests in one behaviour
MaxLines == 2      \* stdout lines one python child writes
MaxPipe == 1       \* stdout lines written but not yet read by the handler
MaxEvents == 1     \* events one javascript run sends before its terminal signal
MaxTimers == 1     \* sandbox setTimeout callbacks one javascript run leaves behind
MaxClock == 2      \* clock ticks during one instrumented run
MaxDepth == 2      \* calls and lines open at once in one instrumented run
MaxTrace == 3      \* events one instrumented run sends
MaxDuration == 2   \* duration of one call or line, and of one run, in ms
MaxMemory == 1     \* value of one memory sample
MaxFlow == 4       \* trace events in the metrics the client visualizes
MaxMetric == 2     \* value of one summary metric of a compared run
MaxSource == 1     \* lines of a user's program
MaxTime == 4       \* ticks of the rate limiter's clock
MaxRequests == 5   \* requests the rate limiter handles
WINDOW_MS == 2     \* the rate limiter's window (60 * 1000 ms), in ticks
MAX_REQUESTS == 2  \* requests admitted per window (60), scaled down

Calls == 1..MaxCalls

\* ------------------------------------------------------------ vocabulary
TraceKinds == {"memory", "functionCall", "variableState", "executionFlow"}

\* Language ids a request may carry.  "cobol" is an unknown id; "constructor"
\* is an unknown id that names a member every object literal inherits.
Languages == {"javascript", "python", "cobol", "constructor"}

\* Execution ids a socket client may put into its request.  The client's
\* runCode puts none: data.executionId is undefined.
NoId == <<"undefined", 0>>

ClientIds == {<<"client", 1>>, <<"client", 2>>, NoId}

\* uuidv4(): a fresh id per REST request.
uuidv4(c) == <<"uuid", c>>

\* The lines pythonHandler's message handler tells apart: the three framed
\* prefixes, each with a payload JSON.parse accepts or rejects, and the rest.
LineKinds == {"event", "eventBad", "complete", "completeBad",
              "error", "errorBad", "plain"}

NoReq == [via |-> "none", language |-> "none", executionId |-> <<"none", 0>>,
          code |-> "none", halts |-> TRUE]

NoPy == [tempFile |-> "none", timeoutId |-> "unset", child |-> "none",
         pipe |-> <<>>, printed |-> 0, ended |-> FALSE, metricsData |-> FALSE]

NoPromise == [state |-> "none", reason |-> "none"]

EmptyMetrics == [memoryUsage |-> 0, functionCalls |-> 0,
                 variableStates |-> 0, executionFlow |-> 0]

\* ----------------------------------------------------------------- state
VARIABLES
  req,        \* per call: the request (entry point, language, id, code, halting)
  pc,         \* per call: "free", "scheduled" (REST setTimeout 0), "returned"
  promise,    \* per call: the promise handler.executeCode returned
  reacted,    \* per call: the .then/.catch reaction of that promise has run
  feed,       \* per call: the messages emitted to the socket, in order
  metrics,    \* per call: lengths of the orchestrator's four metric buffers
  py,         \* per call: pythonHandler's temp file, timer, child, stdout
  jsTimers,   \* per call: sandbox setTimeout callbacks not yet run
  unhandled,  \* per call: a rejected promise nobody handles was produced
  response,   \* per call: what the REST caller was answered
  slots,      \* how many requests the clients of this scenario send
  hostBlocked \* a sandbox timer callback that never returns holds the event loop

\* The collector inside one instrumented program (__metrics in javascript,
\* MetricsCollector in python) and what it has sent so far.
VARIABLES
  lang,       \* the language of the instrumented program
  options,    \* the four tracking options instrumentCode was given
  literals,   \* how the request wrote the option values: booleans or numbers
  userCode,   \* the user's code, line by line
  program,    \* what instrumentCode made of it, line by line
  now,        \* the clock (Date.now(), time.time() * 1000), in ticks
  open,       \* the calls and lines begun and not yet ended, innermost last
  unwinding,  \* an exception is propagating through the open calls and lines
  phase,      \* "idle", "request", "init", "body", "complete", "error",
              \* "nameError" or "crashed"
  finalSnapshot, \* the wrapper's final trackMemory() call was made
  payload,    \* the collector's own lists, as the 'complete' marker carries them
  delivered   \* the events handed to the sink callback, in order

\* The aggregation of a finished trace: metricsService on the server, the
\* visualizationService in the browser, and the comparison of two runs.
VARIABLES
  raw,        \* the metrics object executeCode has collected when .then runs
  processed,  \* what metricsService.processMetrics made of it
  shown,      \* the metrics the client's visualizationService is given
  heatmap,    \* what generateTimeComplexityData made of them
  graphData,  \* what generateCallGraphData made of them
  runs,       \* the results of the two executeForComparison calls
  comparison  \* what compareMetrics answered, per order of the two runs

\* The server's edge and the browser in front of it.
VARIABLES
  compareResponse, \* per order of the two runs: the answer of POST /compare
  requestCounts,   \* the rate limiter's table: per ip, count and resetTime
  clock,           \* Date.now() as the rate limiter reads it, in ticks
  reqLog,          \* every request the rate limiter handled: ip, time, outcome
  client           \* CodeExecutionContext: isExecuting and what runCode sent

programVars == <<lang, options, literals, userCode, program>>

traceVars == <<programVars, now, open, unwinding, phase, finalSnapshot,
               payload, delivered>>

analysisVars == <<raw, processed, shown, heatmap, graphData, runs, comparison>>

orchVars == <<req, pc, promise, reacted, feed, metrics, py, jsTimers, unhandled,
              response, slots, hostBlocked>>

edgeVars == <<compareResponse, requestCounts, clock, reqLog, client>>

vars == <<orchVars, traceVars, analysisVars, edgeVars>>

\* ------------------------------------------------- orchestrator helpers
\* languageHandlers[language] (a property lookup on an object literal): the
\* two own properties, the members inherited from Object.prototype, or
\* undefined.
ObjectPrototypeKeys == {"constructor", "toString", "valueOf", "hasOwnProperty"}

languageHandlers(language) ==
  IF language = "javascript" THEN "javascriptHandler"
  ELSE IF language = "python" THEN "pythonHandler"
  ELSE IF language \in ObjectPrototypeKeys THEN "inherited"
  ELSE "undefined"

Msg(type, event, error) == [type |-> type, event |-> event, error |-> error]

\* if (io && socketId) io.to(socketId).emit(...)
Emit(f, sink, m) == IF sink THEN Append(f, m) ELSE f

\* The event callback executeCode hands to the handler: the socket part.
CallbackEmit(f, sink, event) == Emit(f, sink, Msg("execution-update", event, "-"))

\* The event callback: the switch that buffers the four trace kinds.
CallbackPush(m, event) ==
  CASE event = "memory"        -> [m EXCEPT !.memoryUsage = @ + 1]
    [] event = "functionCall"  -> [m EXCEPT !.functionCalls = @ + 1]
    [] event = "variableState" -> [m EXCEPT !.variableStates = @ + 1]
    [] event = "executionFlow" -> [m EXCEPT !.executionFlow = @ + 1]
    [] OTHER                   -> m

RECURSIVE CallbackEmitAll(_, _, _)
CallbackEmitAll(f, sink, events) ==
  IF events = <<>> THEN f
  ELSE CallbackEmitAll(CallbackEmit(f, sink, Head(events)), sink, Tail(events))

RECURSIVE CallbackPushAll(_, _)
CallbackPushAll(m, events) ==
  IF events = <<>> THEN m
  ELSE CallbackPushAll(CallbackPush(m, Head(events)), Tail(events))

\* resolve()/reject() of a promise: only the first call settles it.
Settle(p, state, reason) ==
  IF p.state = "pending" THEN [state |-> state, reason |-> reason] ELSE p

\* A settled handler promise whose .then/.catch reaction is still queued.
PendingReaction(c) ==
  /\ promise[c].state \in {"resolved", "rejected"}
  /\ ~reacted[c]

\* Queued promise reactions run before the next timer, I/O or socket callback.
MacrotaskReady == ~hostBlocked /\ \A c \in Calls : ~PendingReaction(c)

Sink(c) == req[c].via = "socket"

\* Requests take the call numbers 1, 2, ... in the order they arrive.
FirstFree(c) ==
  /\ c <= slots
  /\ pc[c] = "free"
  /\ \A d \in Calls : d < c => pc[d] # "free"


\* ------------------------------------------------------- request inputs
EventSeqs == UNION {[1..n -> TraceKinds] : n \in 0..MaxEvents}

\* How a javascript run ends: the wrapper sends 'complete', the wrapper's catch
\* sends 'error', vm.run throws (syntax error, or an error outside the
\* wrapper's try), or vm.run throws because the vm timeout expired.
JsOutcomes == {"complete", "error", "throwError", "throwTimeout"}

JsInputs == [events : EventSeqs, outcome : JsOutcomes, timers : 0..MaxTimers]

\* Where pythonHandler's set-up fails: nowhere, mkdirSync (outside the try),
\* writeFileSync, or new PythonShell.
PyFaults == {"none", "mkdir", "write", "spawn"}

\* The data of an 'execute-code' message: nothing looks at it before the
\* service does, so its code is whatever the client put there.  Code that is
\* blank after trimming is a program that ends at once.
SocketCodes == {"blank", "text"}

SocketRequests ==
  {r \in [via : {"socket"}, language : Languages, executionId : ClientIds,
          code : SocketCodes, halts : BOOLEAN] :
     r.code = "blank" => r.halts}

\* A request body of POST /execute, by what validateCodeInput looks at.
CodeKinds == {"missing", "blank", "huge", "unsafe", "text"}
RestBodies == [code : CodeKinds, language : Languages, halts : BOOLEAN]

\* validateCodeInput: the status it answers with, or "next".
validateCodeInput(body) ==
  IF body.code \in {"missing", "blank"} THEN 400
  ELSE IF body.code = "huge" THEN 400
  ELSE IF body.language \notin {"javascript", "python"} THEN 400
  ELSE IF body.code = "unsafe" THEN 403
  ELSE 0

NoResponse == [status |-> 0, executionId |-> <<"none", 0>>]

\* ------------------------------------------------- javascriptHandler
\* The metricsCallback calls of one vm.run, in order: process.send forwards
\* every message, the terminal one included; the catch around vm.run reports
\* 'error' as well.
JsSignals(js) ==
  js.events \o << IF js.outcome = "complete" THEN "complete" ELSE "error" >>

\* What vm.run leaves the handler's promise as.
JsPromise(js) ==
  CASE js.outcome = "complete"     -> [state |-> "resolved", reason |-> "none"]
    [] js.outcome = "error"        -> [state |-> "rejected", reason |-> "runtime"]
    [] js.outcome = "throwError"   -> [state |-> "rejected", reason |-> "runtime"]
    [] js.outcome = "throwTimeout" -> [state |-> "rejected", reason |-> "timeout"]

\* ----------------------------------------------------- pythonHandler
\* The synchronous part of pythonHandler.executeCode: temp file, shell, timer.
PyStart(fault) ==
  CASE fault = "none"  -> [NoPy EXCEPT !.tempFile = "exists", !.timeoutId = "armed",
                                       !.child = "running"]
    [] fault = "mkdir" -> NoPy
    [] fault = "write" -> NoPy
    [] fault = "spawn" -> [NoPy EXCEPT !.tempFile = "removed"]

PyStartPromise(fault) ==
  IF fault = "none" THEN [state |-> "pending", reason |-> "none"]
  ELSE [state |-> "rejected", reason |-> "spawn"]

\* metricsCallback calls of the synchronous part: the catch block reports
\* 'error'; a throw of mkdirSync is outside the try and reports nothing.
PyStartSignals(fault) ==
  IF fault \in {"write", "spawn"} THEN <<"error">> ELSE <<>>

\* fs.unlinkSync(tempFile) inside its own try/catch
Unlink(p) == [p EXCEPT !.tempFile = "removed"]

\* if (timeoutId) { clearTimeout(timeoutId); timeoutId = null; }
ClearTimer(p) ==
  IF p.timeoutId = "armed" THEN [p EXCEPT !.timeoutId = "cleared"] ELSE p

\* --------------------------------------------- codeExecutionService
\* executeCode(io, socketId, data), up to the point where it returns.
ExecuteCode(c, r, instrumentThrows, js, fault) ==
  LET h == languageHandlers(r.language)
      sink == r.via = "socket"
      progress == Emit(feed[c], sink, Msg("execution-progress", "-", "-"))
  IN
  /\ req' = [req EXCEPT ![c] = r]
  /\ pc' = [pc EXCEPT ![c] = "returned"]
  /\ UNCHANGED <<reacted, unhandled>>
  /\ IF h = "undefined" THEN
       /\ feed' = [feed EXCEPT ![c] =
                     Emit(@, sink, Msg("execution-error", "-", "notSupported"))]
       /\ UNCHANGED <<promise, metrics, py, jsTimers>>
     ELSE IF h = "inherited" THEN
       \* handler.instrumentCode is not a function: the outer catch
       /\ feed' = [feed EXCEPT ![c] =
                     Emit(@, sink, Msg("execution-error", "-", "notAFunction"))]
       /\ UNCHANGED <<promise, metrics, py, jsTimers>>
     ELSE IF instrumentThrows THEN
       /\ feed' = [feed EXCEPT ![c] =
                     Emit(@, sink, Msg("execution-error", "-", "instrumentThrew"))]
       /\ UNCHANGED <<promise, metrics, py, jsTimers>>
     ELSE IF h = "javascriptHandler" THEN
       \* a program that never halts loops inside vm.run, which the vm
       \* timeout ends, or inside a timer callback it leaves behind
       /\ ~r.halts => (js.outcome = "throwTimeout" /\ js.timers = 0)
                        \/ (js.outcome # "throwTimeout" /\ js.timers > 0)
       /\ feed' = [feed EXCEPT ![c] = CallbackEmitAll(progress, sink, JsSignals(js))]
       /\ metrics' = [metrics EXCEPT ![c] = CallbackPushAll(@, JsSignals(js))]
       /\ promise' = [promise EXCEPT ![c] = JsPromise(js)]
       /\ jsTimers' = [jsTimers EXCEPT ![c] = js.timers]
       /\ UNCHANGED py
     ELSE
       /\ feed' = [feed EXCEPT ![c] =
                     CallbackEmitAll(progress, sink, PyStartSignals(fault))]
       /\ metrics' = [metrics EXCEPT ![c] = CallbackPushAll(@, PyStartSignals(fault))]
       /\ promise' = [promise EXCEPT ![c] = PyStartPromise(fault)]
       /\ py' = [py EXCEPT ![c] = PyStart(fault)]
       /\ UNCHANGED jsTimers

\* socket.on('execute-code'): no validation, the service is called at once.
SocketExecute(c) ==
  /\ FirstFree(c)
  /\ MacrotaskReady
  /\ \E r \in SocketRequests, instrumentThrows \in BOOLEAN,
        js \in JsInputs, fault \in PyFaults :
       ExecuteCode(c, r, instrumentThrows, js, fault)
  /\ UNCHANGED <<edgeVars, analysisVars, traceVars, response, slots, hostBlocked>>

\* POST /execute: validateCodeInput, then executionController.executeCode,
\* which schedules the service with setTimeout(0) and answers with the id.
RestExecute(c) ==
  /\ FirstFree(c)
  /\ MacrotaskReady
  /\ \E body \in RestBodies :
       IF validateCodeInput(body) = 0 THEN
         /\ req' = [req EXCEPT ![c] = [via |-> "rest", language |-> body.language,
                                      executionId |-> uuidv4(c),
                                      code |-> body.code, halts |-> body.halts]]
         /\ pc' = [pc EXCEPT ![c] = "scheduled"]
         /\ response' = [response EXCEPT ![c] =
                           [status |-> 200, executionId |-> uuidv4(c)]]
       ELSE
         /\ pc' = [pc EXCEPT ![c] = "refused"]
         /\ response' = [response EXCEPT ![c] =
                           [status |-> validateCodeInput(body),
                            executionId |-> <<"none", 0>>]]
         /\ UNCHANGED req
  /\ UNCHANGED <<edgeVars, analysisVars, traceVars, promise, reacted, feed, metrics, py, jsTimers, unhandled, slots, hostBlocked>>

\* The setTimeout(0) callback of executionController.executeCode:
\* codeExecutionService.executeCode(null, null, {...}).
RestStart(c) ==
  /\ pc[c] = "scheduled"
  /\ MacrotaskReady
  /\ \E instrumentThrows \in BOOLEAN, js \in JsInputs, fault \in PyFaults :
       ExecuteCode(c, req[c], instrumentThrows, js, fault)
  /\ UNCHANGED <<edgeVars, analysisVars, traceVars, response, slots, hostBlocked>>


\* ------------------------------------------- the python child process
\* The child writes one more stdout line of any kind (the instrumented
\* program's own frames, or whatever the user's code prints).
PyChildPrint(c) ==
  /\ py[c].child = "running"
  /\ py[c].printed < MaxLines
  /\ Len(py[c].pipe) < MaxPipe
  /\ \E line \in LineKinds :
       py' = [py EXCEPT ![c].pipe = Append(@, line), ![c].printed = @ + 1]
  /\ UNCHANGED <<edgeVars, analysisVars, traceVars, req, pc, promise, reacted, feed, metrics, jsTimers, unhandled,
                 response, slots, hostBlocked>>

\* The child exits by itself, with exit code 0 or not.
PyChildExit(c) ==
  /\ py[c].child = "running"
  /\ req[c].halts
  /\ \E status \in {"exitOk", "exitFail"} : py' = [py EXCEPT ![c].child = status]
  /\ UNCHANGED <<edgeVars, analysisVars, traceVars, req, pc, promise, reacted, feed, metrics, jsTimers, unhandled,
                 response, slots, hostBlocked>>

\* -------------------------------------- pythonHandler: the callbacks
\* pyShell.on('message'): one stdout line.  Lines of one chunk are handed
\* over back to back, so a line may follow its predecessor before the
\* reaction of this call's promise has run.
PyMessage(c) ==
  /\ py[c].pipe # <<>>
  /\ ~hostBlocked
  /\ \A d \in Calls \ {c} : ~PendingReaction(d)
  /\ LET line == Head(py[c].pipe)
         rest == [py[c] EXCEPT !.pipe = Tail(@)]
     IN
     CASE line = "event" ->
            \E event \in TraceKinds :
              /\ feed' = [feed EXCEPT ![c] = CallbackEmit(@, Sink(c), event)]
              /\ metrics' = [metrics EXCEPT ![c] = CallbackPush(@, event)]
              /\ py' = [py EXCEPT ![c] = rest]
              /\ UNCHANGED promise
       [] line = "complete" ->
            /\ py' = [py EXCEPT ![c] = [rest EXCEPT !.metricsData = TRUE]]
            /\ UNCHANGED <<feed, metrics, promise>>
       [] line = "error" ->
            /\ feed' = [feed EXCEPT ![c] = CallbackEmit(@, Sink(c), "error")]
            /\ metrics' = [metrics EXCEPT ![c] = CallbackPush(@, "error")]
            /\ py' = [py EXCEPT ![c] = Unlink(ClearTimer(rest))]
            /\ promise' = [promise EXCEPT ![c] = Settle(@, "rejected", "runtime")]
       [] line = "errorBad" ->
            \* catch (err) { reject(err) }
            /\ py' = [py EXCEPT ![c] = rest]
            /\ promise' = [promise EXCEPT ![c] = Settle(@, "rejected", "decode")]
            /\ UNCHANGED <<feed, metrics>>
       [] OTHER ->
            \* eventBad, completeBad: logged; plain: ignored
            /\ py' = [py EXCEPT ![c] = rest]
            /\ UNCHANGED <<feed, metrics, promise>>
  /\ UNCHANGED <<edgeVars, analysisVars, traceVars, req, pc, reacted, jsTimers, unhandled, response, slots, hostBlocked>>

\* The setTimeout(timeout) callback: terminate, report, unlink, reject.
\* A terminated child ends by the signal, or with a failure status.
PyTimeout(c) ==
  /\ py[c].timeoutId = "armed"
  /\ MacrotaskReady
  /\ \E status \in {"killed", "exitFail"} :
       py' = [py EXCEPT ![c] =
                Unlink([@ EXCEPT !.timeoutId = "fired",
                                 !.child = IF @ = "running" THEN status ELSE @])]
  /\ feed' = [feed EXCEPT ![c] = CallbackEmit(@, Sink(c), "error")]
  /\ metrics' = [metrics EXCEPT ![c] = CallbackPush(@, "error")]
  /\ promise' = [promise EXCEPT ![c] = Settle(@, "rejected", "timeout")]
  /\ UNCHANGED <<edgeVars, analysisVars, traceVars, req, pc, reacted, jsTimers, unhandled, response, slots, hostBlocked>>

\* The pyShell.end callback: the child is gone and its stdout is drained.
\* err is set when the child ended with a failure status.
PyEnd(c) ==
  /\ py[c].child \in {"exitOk", "exitFail", "killed"}
  /\ py[c].pipe = <<>>
  /\ ~py[c].ended
  /\ MacrotaskReady
  /\ py' = [py EXCEPT ![c] = [Unlink(ClearTimer(@)) EXCEPT !.ended = TRUE]]
  /\ IF py[c].child = "exitFail" THEN
       /\ feed' = [feed EXCEPT ![c] = CallbackEmit(@, Sink(c), "error")]
       /\ metrics' = [metrics EXCEPT ![c] = CallbackPush(@, "error")]
       /\ promise' = [promise EXCEPT ![c] = Settle(@, "rejected", "exit")]
     ELSE
       /\ promise' = [promise EXCEPT ![c] = Settle(@, "resolved", "none")]
       /\ UNCHANGED <<feed, metrics>>
  /\ UNCHANGED <<edgeVars, analysisVars, traceVars, req, pc, reacted, jsTimers, unhandled, response, slots, hostBlocked>>

\* ------------------------------- javascriptHandler: sandbox setTimeout
\* A callback the user's code registered through the sandbox's setTimeout
\* runs on the host's event loop after vm.run returned, outside the vm
\* timeout.  Tracking calls inside it reach process.send; the callback of a
\* program that never halts does not return.
JsTimerFire(c) ==
  /\ jsTimers[c] > 0
  /\ MacrotaskReady
  /\ jsTimers' = [jsTimers EXCEPT ![c] = @ - 1]
  /\ \/ UNCHANGED <<feed, metrics>>
     \/ \E event \in TraceKinds :
          /\ feed' = [feed EXCEPT ![c] = CallbackEmit(@, Sink(c), event)]
          /\ metrics' = [metrics EXCEPT ![c] = CallbackPush(@, event)]
  /\ hostBlocked' = ~req[c].halts
  /\ UNCHANGED <<edgeVars, analysisVars, traceVars, req, pc, promise, reacted, py, unhandled, response, slots>>

\* ------------------------- codeExecutionService: the promise reactions
\* .then(result => ...): processMetrics, emit execution-complete.
ThenFeed(f, sink) == Emit(f, sink, Msg("execution-complete", "-", "-"))

ChainThen(c) ==
  /\ PendingReaction(c)
  /\ promise[c].state = "resolved"
  /\ reacted' = [reacted EXCEPT ![c] = TRUE]
  /\ feed' = [feed EXCEPT ![c] = ThenFeed(@, Sink(c))]
  /\ UNCHANGED <<edgeVars, analysisVars, traceVars, req, pc, promise, metrics, py, jsTimers, unhandled, response, slots, hostBlocked>>

\* .catch(error => { emit execution-error; throw error; }): the promise the
\* rethrow rejects is neither returned nor awaited.
\* (variant: the .catch rethrows without emitting)
CatchFeed_Silent(f, sink, reason) == f

CatchFeed(f, sink, reason) == Emit(f, sink, Msg("execution-error", "-", reason))

ChainCatch(c) ==
  /\ PendingReaction(c)
  /\ promise[c].state = "rejected"
  /\ reacted' = [reacted EXCEPT ![c] = TRUE]
  /\ feed' = [feed EXCEPT ![c] = CatchFeed(@, Sink(c), promise[c].reason)]
  /\ unhandled' = [unhandled EXCEPT ![c] = TRUE]
  /\ UNCHANGED <<edgeVars, analysisVars, traceVars, req, pc, promise, metrics, py, jsTimers, response, slots, hostBlocked>>

\* ------------------------------------------------------ metricsService
\* The payloads of the trace events by what the aggregation reads of them.
FunctionNames == {"f", "g"}

\* A functionCall event without a caller (undefined, null or '').
NoCaller == ""

Callers == FunctionNames \cup {NoCaller}

LineNumbers == {4, 7}

VariableNames == {"x"}

MemoryPoints == [value : 0..MaxMemory]

FunctionCallEvents ==
  [name : FunctionNames, caller : Callers, duration : 0..MaxDuration]

LineEvents == [line : LineNumbers, duration : 0..MaxDuration]

VariableEvents == [name : VariableNames]

\* mostExpensiveFunction = null
Null == "null"

EmptyRaw == [executionTime |-> 0, memoryUsage |-> <<>>, functionCalls |-> <<>>,
             variableStates |-> <<>>, executionFlow |-> <<>>]

\* metrics.memoryUsage.reduce((max, point) =>
\*   point.value > max ? point.value : max, 0)
RECURSIVE peakMemory(_)
peakMemory(memoryUsage) ==
  IF memoryUsage = <<>> THEN 0
  ELSE LET max == peakMemory(SubSeq(memoryUsage, 1, Len(memoryUsage) - 1))
           point == memoryUsage[Len(memoryUsage)]
       IN IF point.value > max THEN point.value ELSE max

\* new Set(metrics.functionCalls.map(call => call.name)).size
\* (variant: one per call instead of one per name)
uniqueFunctions_PerCall(functionCalls) == Len(functionCalls)

uniqueFunctions(functionCalls) ==
  Cardinality({functionCalls[i].name : i \in DOMAIN functionCalls})

\* functionTimes[call.name] += call.duration, on the entries of the object
\* in the order their keys were inserted.
RECURSIVE AddTime(_, _, _)
AddTime(entries, name, duration) ==
  IF entries = <<>> THEN << [name |-> name, time |-> duration] >>
  ELSE IF Head(entries).name = name
    THEN << [Head(entries) EXCEPT !.time = @ + duration] >> \o Tail(entries)
    ELSE << Head(entries) >> \o AddTime(Tail(entries), name, duration)

\* metrics.functionCalls.forEach(call => ...): Object.entries(functionTimes)
RECURSIVE functionTimes(_)
functionTimes(functionCalls) ==
  IF functionCalls = <<>> THEN <<>>
  ELSE LET call == functionCalls[Len(functionCalls)]
       IN AddTime(functionTimes(SubSeq(functionCalls, 1, Len(functionCalls) - 1)),
                  call.name, call.duration)

\* Object.entries(functionTimes).forEach(([name, time]) => {
\*   if (time > maxTime) { maxTime = time; mostExpensiveFunction = name; } })
RECURSIVE MostExpensive(_, _)
MostExpensive(entries, best) ==
  IF entries = <<>> THEN best
  ELSE MostExpensive(Tail(entries),
         IF Head(entries).time > best.maxTime
           THEN [mostExpensiveFunction |-> Head(entries).name,
                 maxTime |-> Head(entries).time]
           ELSE best)

calculateSummaryMetrics(m) ==
  LET best == MostExpensive(functionTimes(m.functionCalls),
                            [mostExpensiveFunction |-> Null, maxTime |-> 0])
  IN [executionTime |-> m.executionTime,
      peakMemory |-> peakMemory(m.memoryUsage),
      totalFunctionCalls |-> Len(m.functionCalls),
      uniqueFunctions |-> uniqueFunctions(m.functionCalls),
      mostExpensiveFunction |-> best.mostExpensiveFunction,
      mostExpensiveFunctionTime |-> best.maxTime]

\* a / b of two numbers, kept as the fraction
Quotient(a, b) == [num |-> a, den |-> b]

\* The placeholder estimate: 'O(n)', confidence 0.8, no data points.
analyzeTimeComplexity(m) ==
  [estimatedComplexity |-> "O(n)", confidence |-> Quotient(8, 10),
   dataPoints |-> <<>>]

processMemoryData(memoryData) ==
  [i \in DOMAIN memoryData |-> [value |-> memoryData[i].value]]

\* nodes.add(id): a Set keeps its members in the order they were added.
SetAdd(members, id) ==
  IF \E i \in DOMAIN members : members[i] = id THEN members
  ELSE Append(members, id)

\* call.caller || 'global'
SourceOf(call) == IF call.caller = NoCaller THEN "global" ELSE call.caller

\* `${source}->${target}` on the server, `${source}-${target}` in the client
\* (variant: the target alone)
linkId_TargetOnly(source, separator, target) == target

linkId(source, separator, target) == source \o separator \o target

\* callCountMap.has(linkId) ? update the entry : callCountMap.set(linkId, ...)
RECURSIVE CountLink(_, _, _, _)
CountLink(entries, id, source, call) ==
  IF entries = <<>>
    THEN << [linkId |-> id, source |-> source, target |-> call.name,
             count |-> 1, totalDuration |-> call.duration] >>
  ELSE IF Head(entries).linkId = id
    THEN << [Head(entries) EXCEPT !.count = @ + 1,
                                  !.totalDuration = @ + call.duration] >>
         \o Tail(entries)
    ELSE << Head(entries) >> \o CountLink(Tail(entries), id, source, call)

\* functionCalls.forEach(call => ...): the node set and the link map
RECURSIVE CallGraphFold(_, _)
CallGraphFold(functionCalls, separator) ==
  IF functionCalls = <<>> THEN [nodes |-> <<>>, callCountMap |-> <<>>]
  ELSE LET g == CallGraphFold(SubSeq(functionCalls, 1, Len(functionCalls) - 1),
                              separator)
           call == functionCalls[Len(functionCalls)]
           source == SourceOf(call)
       IN [nodes |-> SetAdd(SetAdd(g.nodes, source), call.name),
           callCountMap |-> CountLink(g.callCountMap,
                                      linkId(source, separator, call.name),
                                      source, call)]

generateCallGraph(functionCalls) ==
  LET g == CallGraphFold(functionCalls, "->")
  IN [nodes |-> g.nodes,
      links |-> [i \in DOMAIN g.callCountMap |->
                   [source |-> g.callCountMap[i].source,
                    target |-> g.callCountMap[i].target,
                    count |-> g.callCountMap[i].count,
                    averageDuration |-> Quotient(g.callCountMap[i].totalDuration,
                                                 g.callCountMap[i].count)]]]

\* The keys of an object whose keys are line numbers: Object.values walks
\* integer keys in ascending order.
RECURSIVE Ascending(_)
Ascending(numbers) ==
  IF numbers = {} THEN <<>>
  ELSE LET least == CHOOSE n \in numbers : \A k \in numbers : n <= k
       IN << least >> \o Ascending(numbers \ {least})

LinesOf(executionFlow) == {executionFlow[i].line : i \in DOMAIN executionFlow}

\* The steps of one line, in trace order.
StepsOf(executionFlow, line) ==
  SelectSeq(executionFlow, LAMBDA step : step.line = line)

RECURSIVE SumDurations(_)
SumDurations(steps) ==
  IF steps = <<>> THEN 0 ELSE Head(steps).duration + SumDurations(Tail(steps))

\* processExecutionFlow: one entry per line, no line left out.
processExecutionFlow(executionFlow) ==
  LET lines == Ascending(LinesOf(executionFlow))
  IN [i \in DOMAIN lines |->
        LET steps == StepsOf(executionFlow, lines[i])
        IN [line |-> lines[i],
            executionCount |-> Len(steps),
            totalTime |-> SumDurations(steps),
            averageTime |-> Quotient(SumDurations(steps), Len(steps))]]

\* variables[state.name].changes.push(...)
RECURSIVE AddChange(_, _)
AddChange(entries, name) ==
  IF entries = <<>> THEN << [name |-> name, changes |-> 1] >>
  ELSE IF Head(entries).name = name
    THEN << [Head(entries) EXCEPT !.changes = @ + 1] >> \o Tail(entries)
    ELSE << Head(entries) >> \o AddChange(Tail(entries), name)

RECURSIVE processVariableStates(_)
processVariableStates(variableStates) ==
  IF variableStates = <<>> THEN <<>>
  ELSE AddChange(processVariableStates(SubSeq(variableStates, 1,
                                              Len(variableStates) - 1)),
                 variableStates[Len(variableStates)].name)

processMetrics(m) ==
  [summary |-> calculateSummaryMetrics(m),
   timeComplexity |-> analyzeTimeComplexity(m),
   memoryUsage |-> processMemoryData(m.memoryUsage),
   callGraph |-> generateCallGraph(m.functionCalls),
   executionFlow |-> processExecutionFlow(m.executionFlow),
   variableTracing |-> processVariableStates(m.variableStates)]

NotProcessed == [done |-> FALSE]

\* The .then of executeCode and of executeForComparison: processMetrics.
ProcessMetrics ==
  /\ ~processed.done
  /\ processed' = [done |-> TRUE, metrics |-> processMetrics(raw)]
  /\ UNCHANGED <<edgeVars, orchVars, traceVars, raw, shown, heatmap, graphData, runs, comparison>>

\* ------------------------------------------- client visualizationService
NoShown == [functionCalls |-> <<>>, executionFlow |-> <<>>]

\* heatmapData.sort((a, b) => b.totalDuration - a.totalDuration): the sort
\* is stable, a row goes behind the rows that are not smaller.
RECURSIVE InsertRow(_, _)
InsertRow(sorted, row) ==
  IF sorted = <<>> THEN << row >>
  ELSE IF Head(sorted).totalDuration >= row.totalDuration
    THEN << Head(sorted) >> \o InsertRow(Tail(sorted), row)
    ELSE << row >> \o sorted

\* (variant: the rows are left in the order of their lines)
SortByTotalDuration_Unsorted(rows) == rows

RECURSIVE SortByTotalDuration(_)
SortByTotalDuration(rows) ==
  IF rows = <<>> THEN <<>>
  ELSE InsertRow(SortByTotalDuration(SubSeq(rows, 1, Len(rows) - 1)),
                 rows[Len(rows)])

\* generateTimeComplexityData(metrics): group by line, keep the lines
\* executed more than once, sort by total duration.
generateTimeComplexityData(m) ==
  IF m.executionFlow = <<>> THEN <<>>
  ELSE
    LET lines == Ascending(LinesOf(m.executionFlow))
        multiple == SelectSeq(lines,
                      LAMBDA line : Len(StepsOf(m.executionFlow, line)) > 1)
        heatmapData ==
          [i \in DOMAIN multiple |->
             LET executions == StepsOf(m.executionFlow, multiple[i])
             IN [line |-> multiple[i],
                 executionCount |-> Len(executions),
                 totalDuration |-> SumDurations(executions),
                 avgDuration |-> Quotient(SumDurations(executions),
                                          Len(executions))]]
    IN SortByTotalDuration(heatmapData)

\* generateCallGraphData(functionCalls)
generateCallGraphData(functionCalls) ==
  IF functionCalls = <<>> THEN [nodes |-> <<>>, links |-> <<>>]
  ELSE
    LET g == CallGraphFold(functionCalls, "-")
    IN [nodes |-> g.nodes,
        links |-> [i \in DOMAIN g.callCountMap |->
                     [source |-> g.callCountMap[i].source,
                      target |-> g.callCountMap[i].target,
                      count |-> g.callCountMap[i].count,
                      value |-> g.callCountMap[i].count,
                      avgDuration |-> Quotient(g.callCountMap[i].totalDuration,
                                               g.callCountMap[i].count)]]]

NotShown == [done |-> FALSE]

GenerateTimeComplexityData ==
  /\ ~heatmap.done
  /\ heatmap' = [done |-> TRUE, rows |-> generateTimeComplexityData(shown)]
  /\ UNCHANGED <<edgeVars, orchVars, traceVars, raw, processed, shown, graphData, runs, comparison>>

\* TimeComplexity.jsx, generateHeatmapData(executionFlow): the same grouping,
\* filter and sort as generateTimeComplexityData.
generateHeatmapData(executionFlow) ==
  generateTimeComplexityData([executionFlow |-> executionFlow])

\* The effect of the TimeComplexity component on the metrics that
\* 'execution-complete' carried: the heat map of metrics.executionFlow, if
\* that is not empty ([] until then).
TimeComplexityEffect ==
  /\ processed.done /\ ~heatmap.done
  /\ heatmap' = [done |-> TRUE,
                 rows |-> IF Len(processed.metrics.executionFlow) > 0
                            THEN generateHeatmapData(processed.metrics.executionFlow)
                            ELSE <<>>]
  /\ UNCHANGED <<edgeVars, orchVars, traceVars, raw, processed, shown, graphData, runs, comparison>>

GenerateCallGraphData ==
  /\ ~graphData.done
  /\ graphData' = [done |-> TRUE, graph |-> generateCallGraphData(shown.functionCalls)]
  /\ UNCHANGED <<edgeVars, orchVars, traceVars, raw, processed, shown, heatmap, runs, comparison>>

\* ---------------------------------------- metricsService.compareMetrics
\* The summary of one compared run, by what compareMetrics reads of it.
Summaries == [executionTime : 0..MaxMetric, peakMemory : 0..MaxMetric,
              totalFunctionCalls : 0..MaxMetric]

NoRuns == << [executionTime |-> 0, peakMemory |-> 0, totalFunctionCalls |-> 0],
             [executionTime |-> 0, peakMemory |-> 0, totalFunctionCalls |-> 0] >>

\* The two orders in which a caller can submit the two snippets.
Orders == {<<1, 2>>, <<2, 1>>}

\* percentChange < 0, percentChange > 0 on a fraction
Negative(q) == (q.num < 0 /\ q.den > 0) \/ (q.num > 0 /\ q.den < 0)

Positive(q) == (q.num > 0 /\ q.den > 0) \/ (q.num < 0 /\ q.den < 0)

\* (variant: a zero old value always gives 0)
calculatePercentChange_ZeroBase(oldValue, newValue) ==
  IF oldValue = 0 THEN Quotient(0, 1)
  ELSE Quotient((newValue - oldValue) * 100, oldValue)

calculatePercentChange(oldValue, newValue) ==
  IF oldValue = 0
    THEN (IF newValue = 0 THEN Quotient(0, 1) ELSE Quotient(100, 1))
  ELSE Quotient((newValue - oldValue) * 100, oldValue)

\* score: +3/-3 for time, +2/-2 for memory, +1/-1 for calls
Score(percentChange, weight) ==
  IF Negative(percentChange) THEN weight
  ELSE IF Positive(percentChange) THEN 0 - weight
  ELSE 0

determineOverallImprovement(c) ==
  LET score == Score(c.executionTime.percentChange, 3)
               + Score(c.memoryUsage.percentChange, 2)
               + Score(c.functionCalls.percentChange, 1)
  IN IF score > 0 THEN "code1"
     ELSE IF score < 0 THEN "code2"
     ELSE "tie"

Deltas(summary1, summary2) ==
  [executionTime |->
     [diff |-> summary2.executionTime - summary1.executionTime,
      percentChange |-> calculatePercentChange(summary1.executionTime,
                                               summary2.executionTime)],
   memoryUsage |->
     [diff |-> summary2.peakMemory - summary1.peakMemory,
      percentChange |-> calculatePercentChange(summary1.peakMemory,
                                               summary2.peakMemory)],
   functionCalls |->
     [diff |-> summary2.totalFunctionCalls - summary1.totalFunctionCalls,
      percentChange |-> calculatePercentChange(summary1.totalFunctionCalls,
                                               summary2.totalFunctionCalls)]]

compareMetrics(summary1, summary2) ==
  LET c == Deltas(summary1, summary2)
  IN [executionTime |-> c.executionTime,
      memoryUsage |-> c.memoryUsage,
      functionCalls |-> c.functionCalls,
      overallImprovement |-> determineOverallImprovement(c)]

NotCompared == [done |-> FALSE]

\* compareExecutions: the snippet submitted as code1 is run first, the one
\* submitted as code2 second, and compareMetrics gets them in that order.
\* Both snippets go through executeForComparison, and so through the
\* handler's instrumentCode, before the answer is sent.
CompareExecutions(order, body) ==
  /\ ~comparison[order].done
  /\ comparison' = [comparison EXCEPT ![order] =
                      [done |-> TRUE,
                       result |-> compareMetrics(runs[order[1]], runs[order[2]])]]
  /\ compareResponse' =
       [compareResponse EXCEPT ![order] =
          [status |-> 200, body |-> body,
           instrumented |-> <<body.code1, body.code2>>]]

\* No trace is being aggregated or compared.
AnalysisIdle ==
  /\ raw = EmptyRaw
  /\ processed = NotProcessed
  /\ shown = NoShown
  /\ heatmap = NotShown
  /\ graphData = NotShown
  /\ runs = NoRuns
  /\ comparison = [order \in Orders |-> NotCompared]

\* ------------------------------------------------- POST /api/compare
\* A request body of POST /compare, by what the route looks at: what the
\* validation reads (code, language) and what the controller reads (code1,
\* code2, language).
CompareCodes == {"blank", "text"}

CompareBodies == [code : {"missing", "text"}, code1 : CompareCodes,
                  code2 : CompareCodes, language : {"javascript", "cobol"}]

NoAnswer ==
  [status |-> 0,
   body |-> [code |-> "none", code1 |-> "none", code2 |-> "none",
             language |-> "none"],
   instrumented |-> <<>>]

\* router.post('/compare', validateCodeInput, compareExecutions)
PostCompare(order) ==
  /\ compareResponse[order].status = 0
  /\ \E body \in CompareBodies :
       IF validateCodeInput(body) = 0
         THEN CompareExecutions(order, body)
         ELSE /\ compareResponse' =
                   [compareResponse EXCEPT ![order] =
                      [status |-> validateCodeInput(body), body |-> body,
                       instrumented |-> <<>>]]
              /\ UNCHANGED comparison
  /\ UNCHANGED <<requestCounts, clock, reqLog, client, orchVars, traceVars,
                 raw, processed, shown, heatmap, graphData, runs>>

\* ------------------------------------------------- the rate limiter
IPs == {"ip1", "ip2"}

\* requestCounts[ip] of an ip that has sent nothing yet
Absent == [present |-> FALSE, count |-> 0, resetTime |-> 0]

\* (variant: the window is over only after its reset time)
Expired_Strict(entry, time) == entry.resetTime < time

\* requestCounts[ip].resetTime <= Date.now()
Expired(entry, time) == entry.resetTime <= time

\* { count: 0, resetTime: Date.now() + WINDOW_MS }
Fresh(time) == [present |-> TRUE, count |-> 0, resetTime |-> time + WINDOW_MS]

\* The rate limiting middleware, for one request of one ip: a new entry if
\* there is none or its window is over, count++, then 429 or next().
RateLimit(ip) ==
  /\ Len(reqLog) < MaxRequests
  /\ LET entry == IF ~requestCounts[ip].present
                     \/ Expired(requestCounts[ip], clock)
                    THEN Fresh(clock)
                    ELSE requestCounts[ip]
         counted == [entry EXCEPT !.count = @ + 1]
     IN /\ requestCounts' = [requestCounts EXCEPT ![ip] = counted]
        /\ reqLog' = Append(reqLog,
                       [ip |-> ip, time |-> clock,
                        outcome |-> IF counted.count > MAX_REQUESTS
                                      THEN "429" ELSE "next"])
  /\ UNCHANGED <<compareResponse, clock, client, orchVars, traceVars,
                 analysisVars>>

\* Time passes between two requests.
Advance ==
  /\ clock < MaxTime
  /\ clock' = clock + 1
  /\ UNCHANGED <<compareResponse, requestCounts, reqLog, client, orchVars,
                 traceVars, analysisVars>>

\* ------------------------------------------------- CodeExecutionContext
ClientIdle ==
  [isExecuting |-> FALSE, executionError |-> FALSE, path |-> "none",
   heard |-> 0, answered |-> FALSE]

\* runCode: blank code is refused with an error message; otherwise
\* isExecuting is set and the code goes out with 'execute-code' if the context
\* holds a socket, with POST /execute if it holds none.
RunCode ==
  /\ client.path = "none"
  /\ \E code \in {"blank", "text"}, socket \in BOOLEAN :
       client' = IF code = "blank"
                   THEN [client EXCEPT !.executionError = TRUE,
                                       !.path = "refused"]
                   ELSE [client EXCEPT !.isExecuting = TRUE,
                                       !.path = IF socket THEN "socket"
                                                ELSE "rest"]
  /\ UNCHANGED <<compareResponse, requestCounts, clock, reqLog, orchVars,
                 traceVars, analysisVars>>

\* The server receives the client's 'execute-code': code that is not blank
\* and no executionId.
ServeSocket(c) ==
  /\ client.path = "socket"
  /\ SocketExecute(c)
  /\ req'[c].code = "text"
  /\ req'[c].executionId = NoId

\* The server receives the client's POST /execute.
ServePost(c) ==
  /\ client.path = "rest"
  /\ RestExecute(c)

\* The context's socket listeners, for the next message of the feed:
\* 'execution-complete' and 'execution-error' set isExecuting to false.
OnSocketEvent(c) ==
  /\ client.path = "socket"
  /\ client.heard < Len(feed[c])
  /\ client' =
       [client EXCEPT
          !.heard = @ + 1,
          !.isExecuting =
            IF feed[c][client.heard + 1].type
                 \in {"execution-complete", "execution-error"}
              THEN FALSE ELSE @,
          !.executionError =
            IF feed[c][client.heard + 1].type = "execution-error"
              THEN TRUE ELSE @]
  /\ UNCHANGED <<compareResponse, requestCounts, clock, reqLog, orchVars,
                 traceVars, analysisVars>>

\* runCode after its await: setExecutionId on an answer, the catch (which
\* sets isExecuting to false) on a refusal.
OnRestAnswer(c) ==
  /\ client.path = "rest" /\ ~client.answered
  /\ response[c].status # 0
  /\ client' =
       [client EXCEPT
          !.answered = TRUE,
          !.isExecuting = IF response[c].status = 200 THEN @ ELSE FALSE,
          !.executionError = IF response[c].status = 200 THEN @ ELSE TRUE]
  /\ UNCHANGED <<compareResponse, requestCounts, clock, reqLog, orchVars,
                 traceVars, analysisVars>>

\* Nothing has reached the server's edge and the client has run nothing.
EdgeIdle ==
  /\ compareResponse = [order \in Orders |-> NoAnswer]
  /\ requestCounts = [ip \in IPs |-> Absent]
  /\ clock = 0
  /\ reqLog = <<>>
  /\ client = ClientIdle

\* ------------------------------------------------------ specification
InitCalls ==
  /\ req = [c \in Calls |-> NoReq]
  /\ pc = [c \in Calls |-> "free"]
  /\ promise = [c \in Calls |-> NoPromise]
  /\ reacted = [c \in Calls |-> FALSE]
  /\ feed = [c \in Calls |-> <<>>]
  /\ metrics = [c \in Calls |-> EmptyMetrics]
  /\ py = [c \in Calls |-> NoPy]
  /\ jsTimers = [c \in Calls |-> 0]
  /\ unhandled = [c \in Calls |-> FALSE]
  /\ response = [c \in Calls |-> NoResponse]
  /\ hostBlocked = FALSE

CallNext(c) ==
  \/ SocketExecute(c)
  \/ RestExecute(c)
  \/ RestStart(c)
  \/ PyChildPrint(c)
  \/ PyChildExit(c)
  \/ PyMessage(c)
  \/ PyTimeout(c)
  \/ PyEnd(c)
  \/ JsTimerFire(c)
  \/ ChainThen(c)
  \/ ChainCatch(c)

\* No instrumented program is looked into.
TraceIdle ==
  /\ lang = "none"
  /\ options = [trackMemory |-> FALSE, trackVariables |-> FALSE,
                trackFunctions |-> FALSE, trackExecutionFlow |-> FALSE]
  /\ literals = "boolean"
  /\ userCode = <<>>
  /\ program = <<>>
  /\ now = 0
  /\ open = <<>>
  /\ unwinding = FALSE
  /\ phase = "idle"
  /\ finalSnapshot = FALSE
  /\ payload = <<>>
  /\ delivered = <<>>

\* One request, followed through every step of its execution.
Init == InitCalls /\ slots = 1 /\ TraceIdle /\ AnalysisIdle /\ EdgeIdle

Next == \E c \in Calls : CallNext(c)

Spec == Init /\ [][Next]_vars


\* Several socket requests in flight together; their children write nothing
\* to stdout, which leaves the start, the timeout and the exit of each run.
InitPair ==
  InitCalls /\ slots = MaxCalls /\ TraceIdle /\ AnalysisIdle /\ EdgeIdle

PairNext(c) ==
  \/ SocketExecute(c)
  \/ PyChildExit(c)
  \/ PyTimeout(c)
  \/ PyEnd(c)
  \/ JsTimerFire(c)
  \/ ChainThen(c)
  \/ ChainCatch(c)

NextPair == \E c \in Calls : PairNext(c)

SpecPair == InitPair /\ [][NextPair]_vars

\* ------------------------------------- the instrumented program's run
OptionSets == [trackMemory : BOOLEAN, trackVariables : BOOLEAN,
               trackFunctions : BOOLEAN, trackExecutionFlow : BOOLEAN]

\* __sendMetricsEvent / send_metrics_event: the event reaches the handler's
\* metricsCallback, and through it the sink, in the order it was sent.
Send(d, event, timestamp) == Append(d, [event |-> event, timestamp |-> timestamp])

\* (variant: the sandbox reports the host's heap)
memUsage_Host(language) == 1..MaxMemory

\* What the process reports as its memory in use: the sandbox's
\* process.memoryUsage() answers zeros; psutil's rss of a live process is
\* positive.
memUsage(language) ==
  IF language = "javascript" THEN {0} ELSE 1..MaxMemory

\* (variant: the sample is taken whatever the option says)
trackMemory_Unguarded(d, value) ==
  Append(d, [event |-> "memory", timestamp |-> now, value |-> value])

\* trackMemory: a sample of the memory in use stamped with the current time,
\* if the option is on.
trackMemory(d, value) ==
  IF options.trackMemory
    THEN Append(d, [event |-> "memory", timestamp |-> now, value |-> value])
    ELSE d

\* trackFunctionCall(name, caller, args, startTime, endTime): called when the
\* call ends, stamped with the time the call started.
trackFunctionCall(d, startTime) ==
  IF options.trackFunctions THEN Send(d, "functionCall", startTime) ELSE d

\* trackVariable: stamped with the current time.
trackVariable(d) ==
  IF options.trackVariables THEN Send(d, "variableState", now) ELSE d

\* The end() of the tracker trackExecution returned: called when the line
\* ends, stamped with the time the line started.
trackExecutionEnd(d, startTime) ==
  IF options.trackExecutionFlow THEN Send(d, "executionFlow", startTime) ELSE d

Room == Len(delivered) < MaxTrace

\* How a request writes the value of an option: the template puts the value's
\* text into the program, so true/false and 1/0 give different programs.
OptionLiterals == {"boolean", "number"}

Render(value, written) ==
  IF written = "boolean" THEN (IF value THEN "true" ELSE "false")
  ELSE (IF value THEN "1" ELSE "0")

\* The statements a user's program is made of, one per line.
Declaration(language) ==
  IF language = "python" THEN "def f(): return 1"
  ELSE "function f() { return 1; }"

Assignment(language) == IF language = "python" THEN "x = 1" ELSE "x = 1;"

LineTexts(language) == {Declaration(language), Assignment(language)}

UserSources(language) ==
  UNION {[1..n -> LineTexts(language)] : n \in 1..MaxSource}

\* instrumentedLines.join('\n'), and the result of code.replace: the lines
\* every line has given way to, one after the other.
RECURSIVE join(_)
join(pieces) ==
  IF pieces = <<>> THEN <<>> ELSE Head(pieces) \o join(Tail(pieces))

\* instrumentExecutionFlow: every statement line is put between a line that
\* opens a tracker, quoting the statement, and one that ends it.
TrackerOpen(line) ==
  "{ const __executionTracker = __metrics.trackExecution('" \o line \o "'); try {"

TrackerClose == "} finally { __executionTracker.end(); } }"

Tracked(line) == <<TrackerOpen(line), line, TrackerClose>>

instrumentExecutionFlow(code, trackExecutionFlow) ==
  IF ~trackExecutionFlow THEN code ELSE join([i \in DOMAIN code |-> Tracked(code[i])])

\* instrumentVariables: a trackVariable call follows whatever the patterns
\* for declarations and assignments match, the tracker lines of
\* instrumentExecutionFlow included.
Assigns(line) ==
  \/ line = Assignment("javascript")
  \/ \E l \in LineTexts("javascript") : line = TrackerOpen(l)

WithTrackVariable(line) ==
  IF Assigns(line) THEN <<line, "__metrics.trackVariable();">> ELSE <<line>>

instrumentVariables(code, trackVariables) ==
  IF ~trackVariables THEN code ELSE 
    join([i \in DOMAIN code |-> WithTrackVariable(code[i])])

\* instrumentFunctions: the body of whatever the pattern for function
\* declarations matches is rewritten to time the call, the quoted
\* declaration in a tracker line included.
Declares(line) ==
  \/ line = Declaration("javascript")
  \/ line = TrackerOpen(Declaration("javascript"))

WithTrackFunctionCall(line) ==
  IF Declares(line)
    THEN <<line \o " /* try { __metrics.trackFunctionCall(); } */">>
    ELSE <<line>>

instrumentFunctions(code, trackFunctions) ==
  IF ~trackFunctions THEN code ELSE 
    join([i \in DOMAIN code |-> WithTrackFunctionCall(code[i])])

\* instrumentPythonFunctions: a decorator line goes before every def.
Indent == "    "

\* userCodeLines.map(line => '    ' + line)
indentedUserCode(code) == [i \in DOMAIN code |-> Indent \o code[i]]

WithDecorator(line) ==
  IF line = Indent \o Declaration("python")
    THEN <<Indent \o "@track_function", line>>
    ELSE <<line>>

instrumentPythonFunctions(code) ==
  join([i \in DOMAIN code |-> WithDecorator(code[i])])

\* The line of the collector that decides whether memory is tracked.
JsGuard(text) == "trackMemory: function() { if (" \o text \o ") {"

PyGuard(text) == "def track_memory(self): if " \o text \o ":"

\* javascriptHandler.instrumentCode and pythonHandler.instrumentCode: the
\* collector, the initial snapshot, and the user's code in a try whose end
\* takes the final snapshot and sends 'complete' and whose catch sends 'error'.
instrumentCode(language, code, opts, written) ==
  IF language = "python"
    THEN <<PyGuard(Render(opts.trackMemory, written)),
           "metrics.track_memory()", "try:">>
         \o (IF opts.trackFunctions
               THEN instrumentPythonFunctions(indentedUserCode(code))
               ELSE indentedUserCode(code))
         \o <<"    metrics.track_memory()", "    print(__METRICS_COMPLETE__)",
              "except Exception as e:", "    print(__METRICS_ERROR__)">>
    ELSE <<JsGuard(Render(opts.trackMemory, written)),
           "__metrics.trackMemory();", "try {">>
         \o instrumentFunctions(
              instrumentVariables(
                instrumentExecutionFlow(code, opts.trackExecutionFlow),
                opts.trackVariables),
              opts.trackFunctions)
         \o <<"__metrics.trackMemory();", "process.send({ event: 'complete' });",
              "} catch (error) {", "process.send({ event: 'error' });", "}">>

\* Python has no names true and false: a collector whose guard was written
\* from a boolean raises NameError the first time it is called.
NameError(language, prog) ==
  /\ language = "python"
  /\ \E i \in DOMAIN prog : prog[i] \in {PyGuard("true"), PyGuard("false")}

\* executionService: handler.instrumentCode(code, options).
InstrumentCode ==
  /\ phase = "request"
  /\ program' = instrumentCode(lang, userCode, options, literals)
  /\ phase' = "init"
  /\ UNCHANGED <<edgeVars, analysisVars, orchVars, lang, options, literals, userCode, now,
               open, unwinding, finalSnapshot, payload, delivered>>

\* The initial snapshot of a python collector written from booleans: the
\* NameError is raised above the wrapper's try, and the program dies of it.
SnapshotRaises ==
  /\ phase = "init"
  /\ NameError(lang, program)
  /\ phase' = "nameError"
  /\ UNCHANGED <<edgeVars, analysisVars, orchVars, programVars, now, open, unwinding,
               finalSnapshot, payload, delivered>>


\* The set-up code above the wrapper's try: the initial memory snapshot.
InitialSnapshot ==
  /\ phase = "init"
  /\ ~NameError(lang, program)
  /\ phase' = "body"
  /\ \E value \in memUsage(lang) :
       delivered' = trackMemory(delivered, value)
  /\ UNCHANGED <<edgeVars, analysisVars, orchVars, programVars, now, open,
               unwinding, finalSnapshot, payload>>

\* The set-up code throws (the program does not compile, an import or the
\* snapshot fails): nothing of the wrapper's try/catch is reached.
SetupFails ==
  /\ phase = "init"
  /\ phase' = "crashed"
  /\ UNCHANGED <<edgeVars, analysisVars, orchVars, programVars, now, open,
               unwinding, delivered, finalSnapshot, payload>>

Tick ==
  /\ phase = "body"
  /\ now < MaxClock
  /\ now' = now + 1
  /\ UNCHANGED <<edgeVars, analysisVars, orchVars, programVars, open,
               unwinding, phase, delivered, finalSnapshot, payload>>

\* An instrumented function is entered: __startTime = Date.now().
EnterFunction ==
  /\ phase = "body" /\ ~unwinding
  /\ options.trackFunctions
  /\ Len(open) < MaxDepth
  /\ open' = Append(open, [kind |-> "call", startTime |-> now])
  /\ UNCHANGED <<edgeVars, analysisVars, orchVars, programVars, now, unwinding,
               phase, delivered, finalSnapshot, payload>>

\* The innermost open call ends, by return or by the exception passing
\* through its catch; either way trackFunctionCall runs.
ExitFunction ==
  /\ phase = "body" /\ Room
  /\ open # <<>> /\ open[Len(open)].kind = "call"
  /\ delivered' = trackFunctionCall(delivered, open[Len(open)].startTime)
  /\ open' = SubSeq(open, 1, Len(open) - 1)
  /\ UNCHANGED <<edgeVars, analysisVars, orchVars, programVars, now, unwinding,
               phase, finalSnapshot, payload>>

\* An instrumented line begins: __metrics.trackExecution(line, code).  Only
\* javascriptHandler.instrumentCode inserts these calls.
BeginLine ==
  /\ phase = "body" /\ ~unwinding
  /\ lang = "javascript" /\ options.trackExecutionFlow
  /\ Len(open) < MaxDepth
  /\ open' = Append(open, [kind |-> "line", startTime |-> now])
  /\ UNCHANGED <<edgeVars, analysisVars, orchVars, programVars, now, unwinding,
               phase, delivered, finalSnapshot, payload>>

\* The innermost open line ends: finally { __executionTracker.end(); }
EndLine ==
  /\ phase = "body" /\ Room
  /\ open # <<>> /\ open[Len(open)].kind = "line"
  /\ delivered' = trackExecutionEnd(delivered, open[Len(open)].startTime)
  /\ open' = SubSeq(open, 1, Len(open) - 1)
  /\ UNCHANGED <<edgeVars, analysisVars, orchVars, programVars, now, unwinding,
               phase, finalSnapshot, payload>>

\* An instrumented declaration or assignment ran: __metrics.trackVariable.
\* Only javascriptHandler.instrumentCode inserts these calls.
TrackVariable ==
  /\ phase = "body" /\ ~unwinding /\ Room
  /\ lang = "javascript" /\ options.trackVariables
  /\ delivered' = trackVariable(delivered)
  /\ UNCHANGED <<edgeVars, analysisVars, orchVars, programVars, now, open,
               unwinding, phase, finalSnapshot, payload>>

\* The user's code throws.
Raise ==
  /\ phase = "body" /\ ~unwinding
  /\ unwinding' = TRUE
  /\ UNCHANGED <<edgeVars, analysisVars, orchVars, programVars, now, open,
               phase, delivered, finalSnapshot, payload>>

\* A try/catch of the user's code stops the exception.
UserCatch ==
  /\ phase = "body" /\ unwinding
  /\ unwinding' = FALSE
  /\ UNCHANGED <<edgeVars, analysisVars, orchVars, programVars, now, open,
               phase, delivered, finalSnapshot, payload>>

\* The user's code reaches its end: final memory snapshot, 'complete'.
Complete ==
  /\ phase = "body" /\ ~unwinding /\ open = <<>> /\ Room
  /\ \E value \in memUsage(lang) :
       delivered' = trackMemory(delivered, value)
  /\ finalSnapshot' = TRUE
  /\ payload' = delivered'
  /\ phase' = "complete"
  /\ UNCHANGED <<edgeVars, analysisVars, orchVars, programVars, now, open, unwinding>>

\* The exception reaches the wrapper's catch: 'error'.
Fail ==
  /\ phase = "body" /\ unwinding /\ open = <<>>
  /\ phase' = "error"
  /\ UNCHANGED <<edgeVars, analysisVars, orchVars, programVars, now, open,
               unwinding, delivered, finalSnapshot, payload>>

\* The exception is none the wrapper catches (python: except Exception lets
\* SystemExit and KeyboardInterrupt through).
Escape ==
  /\ phase = "body" /\ unwinding /\ open = <<>>
  /\ lang = "python"
  /\ phase' = "crashed"
  /\ UNCHANGED <<edgeVars, analysisVars, orchVars, programVars, now, open,
               unwinding, delivered, finalSnapshot, payload>>

InitTrace ==
  /\ InitCalls /\ slots = 0
  /\ lang \in {"javascript", "python"}
  /\ options \in OptionSets
  /\ now = 0
  /\ open = <<>>
  /\ unwinding = FALSE
  /\ literals \in OptionLiterals
  /\ userCode \in UserSources(lang)
  /\ program = <<>>
  /\ phase = "request"
  /\ finalSnapshot = FALSE
  /\ payload = <<>>
  /\ delivered = <<>>
  /\ AnalysisIdle /\ EdgeIdle

NextTrace ==
  \/ InstrumentCode
  \/ InitialSnapshot
  \/ SnapshotRaises
  \/ SetupFails
  \/ Tick
  \/ EnterFunction
  \/ ExitFunction
  \/ BeginLine
  \/ EndLine
  \/ TrackVariable
  \/ Raise
  \/ UserCatch
  \/ Complete
  \/ Fail
  \/ Escape

SpecTrace == InitTrace /\ [][NextTrace]_vars

\* The callbacks node runs whenever they are due: queued promise reactions,
\* expired timers, stdout data and the exit of a child.  Clients and child
\* processes are under no obligation.
Fairness ==
  \A c \in Calls :
    /\ WF_vars(ChainThen(c))
    /\ WF_vars(ChainCatch(c))
    /\ WF_vars(PyMessage(c))
    /\ WF_vars(PyTimeout(c))
    /\ WF_vars(PyEnd(c))
    /\ WF_vars(RestStart(c))
    /\ WF_vars(JsTimerFire(c))

FairSpec == Spec /\ Fairness

\* ------------------------------------- specifications of the aggregation
\* Every metrics object of at most MaxTrace events that executeCode can
\* have collected when the handler's promise resolves.
InitMetrics ==
  /\ InitCalls /\ slots = 0 /\ TraceIdle /\ EdgeIdle
  /\ \E k \in 0..MaxTrace :
       \E l \in 0..(MaxTrace - k) :
         \E n \in 0..(MaxTrace - k - l) :
           \E v \in 0..(MaxTrace - k - l - n) :
             raw \in [executionTime : 0..MaxDuration,
                      memoryUsage : [1..n -> MemoryPoints],
                      functionCalls : [1..k -> FunctionCallEvents],
                      variableStates : [1..v -> VariableEvents],
                      executionFlow : [1..l -> LineEvents]]
  /\ processed = NotProcessed
  /\ shown = NoShown
  /\ heatmap = NotShown
  /\ graphData = NotShown
  /\ runs = NoRuns
  /\ comparison = [order \in Orders |-> NotCompared]

NextMetrics == ProcessMetrics \/ TimeComplexityEffect

SpecMetrics == InitMetrics /\ [][NextMetrics]_vars

\* Every trace of at most MaxFlow function calls and line executions that
\* the client's visualizations can be given.
InitShown ==
  /\ InitCalls /\ slots = 0 /\ TraceIdle /\ EdgeIdle
  /\ raw = EmptyRaw
  /\ processed = NotProcessed
  /\ \E k \in 0..MaxFlow :
       \E l \in 0..(MaxFlow - k) :
         shown \in [functionCalls : [1..k -> FunctionCallEvents],
                    executionFlow : [1..l -> LineEvents]]
  /\ heatmap = NotShown
  /\ graphData = NotShown
  /\ runs = NoRuns
  /\ comparison = [order \in Orders |-> NotCompared]

NextShown ==
  \/ GenerateTimeComplexityData
  \/ GenerateCallGraphData

SpecShown == InitShown /\ [][NextShown]_vars

\* Every pair of run summaries, compared in either order.
InitCompare ==
  /\ InitCalls /\ slots = 0 /\ TraceIdle /\ EdgeIdle
  /\ raw = EmptyRaw
  /\ processed = NotProcessed
  /\ shown = NoShown
  /\ heatmap = NotShown
  /\ graphData = NotShown
  /\ runs \in [1..2 -> Summaries]
  /\ comparison = [order \in Orders |-> NotCompared]

NextCompare == \E order \in Orders : PostCompare(order)

SpecCompare == InitCompare /\ [][NextCompare]_vars

\* Requests of two clients arriving at the rate limiter over time.
InitLimiter == InitCalls /\ slots = 0 /\ TraceIdle /\ AnalysisIdle /\ EdgeIdle

NextLimiter == Advance \/ \E ip \in IPs : RateLimit(ip)

SpecLimiter == InitLimiter /\ [][NextLimiter]_vars

\* One run of the client, on either path, and the server's handling of it.
ClientNext(c) ==
  \/ ServeSocket(c)
  \/ ServePost(c)
  \/ RestStart(c)
  \/ PyChildPrint(c)
  \/ PyChildExit(c)
  \/ PyMessage(c)
  \/ PyTimeout(c)
  \/ PyEnd(c)
  \/ JsTimerFire(c)
  \/ ChainThen(c)
  \/ ChainCatch(c)
  \/ OnSocketEvent(c)
  \/ OnRestAnswer(c)

NextClient == RunCode \/ \E c \in Calls : ClientNext(c)

SpecClient == Init /\ [][NextClient]_vars

\* The server's callbacks run when due and so do the browser's; messages and
\* requests the client has sent arrive.
FairClient ==
  /\ SpecClient
  /\ Fairness
  /\ \A c \in Calls :
       /\ WF_vars(ServeSocket(c))
       /\ WF_vars(ServePost(c))
       /\ WF_vars(OnSocketEvent(c))
       /\ WF_vars(OnRestAnswer(c))

\* ------------------------------------------------------------- claims
TerminalTypes == {"execution-complete", "execution-error"}

CountOf(f, types) == Cardinality({i \in DOMAIN f : f[i].type \in types})

Called(c) == pc[c] = "returned"

C2_NoUpdateAfterTerminal ==
  \A c \in Calls :
    \A i, j \in DOMAIN feed[c] :
      (i < j /\ feed[c][i].type \in TerminalTypes)
        => feed[c][j].type # "execution-update"

\* C5 (as claimed): for every language id other than javascript and python,
\* executeCode fails with the 'not supported' error and emits nothing else.
C5_UnknownLanguageNotSupported ==
  \A c \in Calls :
    (Called(c) /\ Sink(c) /\ req[c].language \notin {"javascript", "python"})
      => /\ feed[c] = << Msg("execution-error", "-", "notSupported") >>
         /\ promise[c] = NoPromise

\* The handler ran the program of this call (set-up did not fail).
ProgramRan(c) ==
  /\ Called(c)
  /\ \/ /\ languageHandlers(req[c].language) = "pythonHandler"
        /\ py[c].child # "none"
     \/ /\ languageHandlers(req[c].language) = "javascriptHandler"
        /\ promise[c].state # "none"

\* C6 (as claimed): for a program that never halts, the handler's promise
\* does not settle other than by the timeout rejection.
C6_NeverHaltingTimesOut ==
  \A c \in Calls :
    (ProgramRan(c) /\ ~req[c].halts /\ promise[c].state # "pending")
      => promise[c] = [state |-> "rejected", reason |-> "timeout"]

\* C7 (as claimed): when the python handler's promise is settled, the temp
\* file is gone and the timeout timer is no longer pending.
C7_ReleasedBeforeSettled ==
  \A c \in Calls :
    (Called(c) /\ promise[c].state \in {"resolved", "rejected"})
      => (py[c].tempFile # "exists" /\ py[c].timeoutId # "armed")

\* C8 (as claimed): a framed line whose payload does not parse is dropped:
\* handling it calls no sink, settles no promise and leaves the stream going.
BadLines == {"eventBad", "completeBad", "errorBad"}

C8_BadFrameOnlyDropped ==
  [][\A c \in Calls :
       (PyMessage(c) /\ Head(py[c].pipe) \in BadLines)
         => /\ feed'[c] = feed[c]
            /\ metrics'[c] = metrics[c]
            /\ promise'[c] = promise[c]
            /\ py'[c] = [py[c] EXCEPT !.pipe = Tail(@)]]_vars

\* C9 (as claimed): no promise rejection leaves executeCode unhandled.
C9_NoUnhandledRejection == \A c \in Calls : ~unhandled[c]

\* C10 (as claimed): an execution accepted over REST has delivered its
\* terminal outcome to the caller once its result handling has run.
C10_RestOutcomeDelivered ==
  \A c \in Calls :
    (req[c].via = "rest" /\ response[c].status = 200 /\ reacted[c])
      => CountOf(feed[c], TerminalTypes) = 1


\* The sandbox of a call is active: its handler has not settled yet.
InFlight(c) == promise[c].state = "pending"

\* C4 (as claimed): no two executions with the same execution id are in
\* flight together; the second request would have been refused.
C4_OneSandboxPerId ==
  \A c, d \in Calls :
    (c # d /\ InFlight(c) /\ InFlight(d))
      => req[c].executionId # req[d].executionId


\* C3 (as claimed): in a successful execution the timestamps of the events
\* the sink received are non-decreasing in the order of delivery.
C3_TimestampsNonDecreasing ==
  phase = "complete" =>
    \A i, j \in DOMAIN delivered :
      i < j => delivered[i].timestamp <= delivered[j].timestamp


\* C11 (as claimed): every execution-update on the feed has one of the four
\* trace kinds as its event; the handlers' 'complete' and 'error' signals
\* are never forwarded as execution-update.
C11_UpdatesAreTraceKinds ==
  \A c \in Calls :
    \A i \in DOMAIN feed[c] :
      feed[c][i].type = "execution-update" => feed[c][i].event \in TraceKinds

\* The messages of one execution as the socket receives them: every emit of
\* executeCode puts the executionId destructured from the request into it.
Delivered(c) ==
  [i \in DOMAIN feed[c] |->
     [executionId |-> req[c].executionId, type |-> feed[c][i].type]]

\* C12 (as claimed): every message on the feed carries the id of its
\* execution, and two executions in flight together that deliver to the
\* socket carry different ids.
C12_MessagesKeyedById ==
  /\ \A c \in Calls :
       \A i \in DOMAIN Delivered(c) : Delivered(c)[i].executionId # NoId
  /\ \A c, d \in Calls :
       (c # d /\ InFlight(c) /\ InFlight(d)
          /\ Delivered(c) # <<>> /\ Delivered(d) # <<>>)
         => \A i \in DOMAIN Delivered(c), j \in DOMAIN Delivered(d) :
              Delivered(c)[i].executionId # Delivered(d)[j].executionId


\* The function-call events of the aggregated trace, and what the claims
\* say of them, counted on the trace itself.
CallsNamed(functionCalls, name) ==
  SelectSeq(functionCalls, LAMBDA call : call.name = name)

NamesIn(functionCalls) == {functionCalls[i].name : i \in DOMAIN functionCalls}

FirstSeen(functionCalls, name) ==
  CHOOSE i \in DOMAIN functionCalls :
    /\ functionCalls[i].name = name
    /\ \A j \in DOMAIN functionCalls : functionCalls[j].name = name => i <= j

\* C13: for every trace, summary.totalFunctionCalls is the number of
\* FunctionCall events of the trace and summary.uniqueFunctions the number of
\* distinct function names among them.
C13_CallCounts ==
  processed.done =>
    /\ processed.metrics.summary.totalFunctionCalls
         = Cardinality(DOMAIN raw.functionCalls)
    /\ processed.metrics.summary.uniqueFunctions
         = Cardinality({name \in FunctionNames :
                          CallsNamed(raw.functionCalls, name) # <<>>})

\* C13 witness: a processed trace of three calls of two functions.
C13_Witness ==
  /\ processed.done
  /\ Len(raw.functionCalls) = 3
  /\ NamesIn(raw.functionCalls) = {"f", "g"}
  /\ processed.metrics.summary.totalFunctionCalls = 3
  /\ processed.metrics.summary.uniqueFunctions = 2

\* C14 (as claimed): for a trace with at least one FunctionCall event,
\* mostExpensiveFunction is the name with the largest cumulative duration,
\* the first-seen of them on a tie, and mostExpensiveFunctionTime is that
\* duration; mostExpensiveFunction is null only for a trace without calls.
C14_MostExpensiveFunction ==
  processed.done =>
    LET calls == raw.functionCalls
        summary == processed.metrics.summary
        Total(name) == SumDurations(CallsNamed(calls, name))
    IN IF calls = <<>> THEN summary.mostExpensiveFunction = Null
       ELSE /\ summary.mostExpensiveFunction \in NamesIn(calls)
            /\ \A name \in NamesIn(calls) :
                 \/ Total(name) < Total(summary.mostExpensiveFunction)
                 \/ /\ Total(name) = Total(summary.mostExpensiveFunction)
                    /\ FirstSeen(calls, summary.mostExpensiveFunction)
                         <= FirstSeen(calls, name)
            /\ summary.mostExpensiveFunctionTime
                 = Total(summary.mostExpensiveFunction)

CallerOrGlobal(call) == IF call.caller = NoCaller THEN "global" ELSE call.caller

\* C16 (as claimed): for every trace, the empty one included, the node set
\* of the call graph is the distinct caller and callee names together with
\* the root "global".
C16_NodesWithGlobalRoot ==
  processed.done =>
    LET calls == raw.functionCalls
        nodes == processed.metrics.callGraph.nodes
    IN {nodes[i] : i \in DOMAIN nodes}
         = {calls[i].name : i \in DOMAIN calls}
             \cup {calls[i].caller : i \in {j \in DOMAIN calls :
                                              calls[j].caller # NoCaller}}
             \cup {"global"}

\* C17: the call graph has exactly one edge per (source, target) pair of the
\* trace, the source being "global" for a call without caller; an edge's
\* count is the number of calls of its pair, its averageDuration their
\* summed duration over that count, and the counts add up to the number of
\* FunctionCall events.
RECURSIVE SumCounts(_)
SumCounts(links) ==
  IF links = <<>> THEN 0 ELSE Head(links).count + SumCounts(Tail(links))

C17_OneEdgePerPair ==
  processed.done =>
    LET calls == raw.functionCalls
        links == processed.metrics.callGraph.links
        Pairs == {<<CallerOrGlobal(calls[i]), calls[i].name>> : i \in DOMAIN calls}
        Of(pair) == SelectSeq(calls, LAMBDA call :
                      <<CallerOrGlobal(call), call.name>> = pair)
    IN /\ {<<links[i].source, links[i].target>> : i \in DOMAIN links} = Pairs
       /\ Len(links) = Cardinality(Pairs)
       /\ \A i \in DOMAIN links :
            LET of == Of(<<links[i].source, links[i].target>>)
            IN /\ links[i].count = Len(of)
               /\ links[i].averageDuration.den # 0
               /\ links[i].averageDuration.num * Len(of)
                    = SumDurations(of) * links[i].averageDuration.den
       /\ SumCounts(links) = Len(calls)

\* C17 witness: a graph of two edges into the same function, one from the
\* root by default and counted twice, one from a caller.
C17_Witness ==
  /\ processed.done
  /\ Len(raw.functionCalls) = 3
  /\ \E i, j \in DOMAIN processed.metrics.callGraph.links :
       /\ processed.metrics.callGraph.links[i]
            = [source |-> "global", target |-> "f", count |-> 2,
               averageDuration |-> Quotient(3, 2)]
       /\ processed.metrics.callGraph.links[j].source = "g"
       /\ processed.metrics.callGraph.links[j].target = "f"

BothCompared == \A order \in Orders : comparison[order].done

Swapped(verdict) ==
  IF verdict = "code1" THEN "code2"
  ELSE IF verdict = "code2" THEN "code1"
  ELSE verdict

\* C18: for two runs with non-negative metrics, comparing them in the two
\* orders gives negated diffs for all three metrics and swapped verdicts
\* (code1 for code2, tie for tie).
C18_ComparisonAntisymmetric ==
  BothCompared =>
    LET ab == comparison[<<1, 2>>].result
        ba == comparison[<<2, 1>>].result
    IN /\ ab.executionTime.diff = 0 - ba.executionTime.diff
       /\ ab.memoryUsage.diff = 0 - ba.memoryUsage.diff
       /\ ab.functionCalls.diff = 0 - ba.functionCalls.diff
       /\ ab.overallImprovement = Swapped(ba.overallImprovement)

\* C18 witness: a run with execution time zero compared in both orders with
\* a slower one; the verdicts are code2 and code1.
C18_Witness ==
  /\ BothCompared
  /\ runs[1].executionTime = 0
  /\ runs[2].executionTime > 0
  /\ comparison[<<1, 2>>].result.overallImprovement = "code2"
  /\ comparison[<<2, 1>>].result.overallImprovement = "code1"

\* C19 (as claimed): the verdict is 'tie' only if the diffs of execution
\* time, peak memory and function-call count are all zero.
C19_TieOnlyWhenEqual ==
  \A order \in Orders :
    (comparison[order].done
       /\ comparison[order].result.overallImprovement = "tie")
      => /\ comparison[order].result.executionTime.diff = 0
         /\ comparison[order].result.memoryUsage.diff = 0
         /\ comparison[order].result.functionCalls.diff = 0

\* One run is no worse than the other on any metric and better on one.
Better(a, b) ==
  /\ a.executionTime <= b.executionTime
  /\ a.peakMemory <= b.peakMemory
  /\ a.totalFunctionCalls <= b.totalFunctionCalls
  /\ a # b

\* C20 (as claimed): the verdict names the run that performed better: code2
\* when the second run is no worse on any metric and lower on one, code1 when
\* the first run is.
C20_VerdictNamesBetterRun ==
  \A order \in Orders :
    comparison[order].done =>
      /\ Better(runs[order[2]], runs[order[1]])
           => comparison[order].result.overallImprovement = "code2"
      /\ Better(runs[order[1]], runs[order[2]])
           => comparison[order].result.overallImprovement = "code1"

\* The instrumented program is over, whichever way it ended.
Ended == phase \in {"complete", "error", "crashed", "nameError"}

\* C21 (as claimed): on every exit path of the instrumented program a final
\* memory snapshot is taken and exactly one terminal marker, 'complete' or
\* 'error', is emitted.
C21_SnapshotAndOneMarker ==
  Ended => finalSnapshot /\ phase \in {"complete", "error"}

\* The option that switches a kind of event on.
OptionOf(event) ==
  CASE event = "memory" -> options.trackMemory
    [] event = "variableState" -> options.trackVariables
    [] event = "functionCall" -> options.trackFunctions
    [] event = "executionFlow" -> options.trackExecutionFlow

\* C22: an instrumented program whose option for a kind of event is false
\* sends no event of that kind and carries none in its final payload,
\* whatever the other three options are.
C22_DisabledKindsAreSilent ==
  /\ \A i \in DOMAIN delivered : OptionOf(delivered[i].event)
  /\ \A i \in DOMAIN payload : OptionOf(payload[i].event)

\* A program that tracks calls but not memory ran to its end and sent a call.
C22_Witness ==
  /\ phase = "complete"
  /\ ~options.trackMemory /\ options.trackFunctions
  /\ \E i \in DOMAIN payload : payload[i].event = "functionCall"

AllOff ==
  /\ ~options.trackMemory /\ ~options.trackVariables
  /\ ~options.trackFunctions /\ ~options.trackExecutionFlow

\* The user's lines as they stand inside the wrapper's try: as written in
\* javascript, each behind the indentation of the try block in python.
InsideWrapper == 
  IF lang = "python" THEN indentedUserCode(userCode) ELSE userCode

Contains(prog, lines) ==
  \E i \in 1..Len(prog) :
    /\ i + Len(lines) - 1 <= Len(prog)
    /\ SubSeq(prog, i, i + Len(lines) - 1) = lines

\* C23 (as claimed): with all four options disabled the instrumented program
\* holds the user's lines unmodified inside the wrapper, and running it runs
\* the user's code as the un-instrumented snippet would, so that it gives the
\* same output: the instrumentation itself never ends the program.
C23_TransparentWhenAllOff ==
  (AllOff /\ phase # "request") =>
    /\ Contains(program, InsideWrapper)
    /\ phase # "nameError"

\* The memory samples among the delivered events.
MemoryEvents == SelectSeq(delivered, LAMBDA e : e.event = "memory")

\* C30: every memory event of a javascript execution has value 0, so the
\* peak memory of its summary is 0 and the memory term of a comparison of
\* two javascript runs adds 0 to the weighted score.
C30_JavascriptMemoryIsZero ==
  lang = "javascript" =>
    /\ \A i \in DOMAIN MemoryEvents : MemoryEvents[i].value = 0
    /\ peakMemory(MemoryEvents) = 0
    /\ Score(calculatePercentChange(peakMemory(MemoryEvents),
                                    peakMemory(MemoryEvents)), 2) = 0

\* A javascript program that tracks memory ran to its end: both snapshots
\* were delivered.
C30_Witness ==
  /\ lang = "javascript" /\ phase = "complete"
  /\ Len(MemoryEvents) = 2

\* A confidence below one half.
Low(confidence) == 2 * confidence.num < confidence.den

\* C25 (as claimed): the complexity estimate of a single-run trace is the
\* same whatever the trace holds: a default notation, a low confidence and
\* no supporting data points.
C25_FixedLowConfidenceEstimate ==
  processed.done =>
    /\ processed.metrics.timeComplexity = analyzeTimeComplexity(EmptyRaw)
    /\ processed.metrics.timeComplexity.dataPoints = <<>>
    /\ Low(processed.metrics.timeComplexity.confidence)

\* C28 (as claimed): after processMetrics on the server and the heat map of
\* the TimeComplexity component on the delivered metrics, every line with
\* more than one LineExecution event in the raw trace has a row in the heat
\* map whose executionCount is the number of its raw events.
C28_PipelineKeepsRepeatedLines ==
  (processed.done /\ heatmap.done) =>
    \A line \in LineNumbers :
      Len(StepsOf(raw.executionFlow, line)) > 1 =>
        \E i \in DOMAIN heatmap.rows :
          /\ heatmap.rows[i].line = line
          /\ heatmap.rows[i].executionCount
               = Len(StepsOf(raw.executionFlow, line))

\* The service of this call has passed the request's code to a handler's
\* instrumentCode.
Instrumented(c) ==
  /\ Called(c)
  /\ languageHandlers(req[c].language) \in {"javascriptHandler", "pythonHandler"}

\* C24 (as claimed): on every entry path (POST /execute, POST /compare, the
\* socket's 'execute-code') code that is empty after trimming is rejected
\* before it reaches a handler's instrumentCode.
C24_BlankCodeNeverInstrumented ==
  /\ \A c \in Calls : Instrumented(c) => req[c].code # "blank"
  /\ \A order \in Orders :
       \A i \in DOMAIN compareResponse[order].instrumented :
         compareResponse[order].instrumented[i] # "blank"

\* C26 (as claimed): a POST /compare whose body has non-empty code1 and
\* code2 and a supported language passes the route's validation and reaches
\* compareExecutions, which runs both snippets and answers with the
\* comparison.
C26_CompareBodyPassesValidation ==
  \A order \in Orders :
    (/\ compareResponse[order].status # 0
     /\ compareResponse[order].body.code1 = "text"
     /\ compareResponse[order].body.code2 = "text"
     /\ compareResponse[order].body.language \in {"javascript", "python"})
      => /\ compareResponse[order].status = 200
         /\ comparison[order].done

\* The requests of one ip, in the order the limiter handled them.
RequestsOf(ip) == SelectSeq(reqLog, LAMBDA e : e.ip = ip)

\* The time the window of the k-th request of a client began: the first
\* request opens a window, and so does every request made a full window or
\* more after the current one began.
RECURSIVE WindowStart(_, _)
WindowStart(requests, k) ==
  IF k = 1 THEN requests[1].time
  ELSE IF requests[k].time >= WindowStart(requests, k - 1) + WINDOW_MS
    THEN requests[k].time
    ELSE WindowStart(requests, k - 1)

\* The place of the k-th request among the requests of its window.
RECURSIVE PlaceInWindow(_, _)
PlaceInWindow(requests, k) ==
  IF k = 1 THEN 1
  ELSE IF requests[k].time >= WindowStart(requests, k - 1) + WINDOW_MS
    THEN 1
    ELSE PlaceInWindow(requests, k - 1) + 1

\* C27: for each ip and each of its windows the rate limiter passes on
\* exactly the first MAX_REQUESTS requests and answers every further one with
\* 429; the first request at or after the reset time opens a new window and
\* is passed on; what other ips send makes no difference.
C27_LimiterAdmitsFirstOfWindow ==
  \A ip \in IPs :
    \A k \in DOMAIN RequestsOf(ip) :
      RequestsOf(ip)[k].outcome
        = IF PlaceInWindow(RequestsOf(ip), k) <= MAX_REQUESTS
            THEN "next" ELSE "429"

\* One ip was refused in its first window and passed on again at the reset
\* time exactly, while the other ip was passed on in between.
C27_Witness ==
  \E i, j, k \in DOMAIN reqLog :
    /\ i < j /\ j < k
    /\ reqLog[i].ip = "ip1" /\ reqLog[i].outcome = "429"
    /\ reqLog[j].ip = "ip2" /\ reqLog[j].outcome = "next"
    /\ reqLog[k].ip = "ip1" /\ reqLog[k].outcome = "next"
    /\ reqLog[k].time = WindowStart(RequestsOf("ip1"), 1) + WINDOW_MS

\* C29 (as claimed): once runCode has sent non-empty code, on the socket
\* path or on the REST fallback path, isExecuting is true, and it eventually
\* returns to false.
C29_ExecutingEventuallyEnds ==
  /\ []((client.path \in {"socket", "rest"}
          /\ client.heard = 0 /\ ~client.answered) => client.isExecuting)
  /\ client.isExecuting ~> ~client.isExecuting

====
